---- MODULE Spec2Model ----
(***************************************************************************)
(* A model of the CHIP-8 virtual machine of adamransom/chip8:              *)
(*   src/src/device.rs  - Device: memory, registers, stack, timers, the    *)
(*                        fetch/decode/execute tick and the runtime loop   *)
(*   src/src/screen.rs  - Screen: the 64x32 framebuffer, draw and refresh  *)
(*   src/src/app.rs     - App: the host side that sends Key and Off events *)
(*                                                                         *)
(* A panic of the runtime thread is modelled by at = "panicked": the       *)
(* thread unwinds, the Device is dropped, and the device variables keep    *)
(* the values they had when the panicking step began.                      *)
(***************************************************************************)
EXTENDS Integers, Sequences, FiniteSets, TLC

VARIABLES
    memory,          \* Device.memory: [u8; 4096]
    registers,       \* Device.registers: [u8; 16]
    stack,           \* Device.stack: [u16; 16]
    keys,            \* Device.keys: [bool; 16]
    pc,              \* Device.pc: u16
    sp,              \* Device.sp: usize
    i,               \* Device.i: u16
    dt,              \* Device.dt: u8
    st,              \* Device.st: u8
    wait_key,        \* Device.wait_key: u8, 0xFF when not waiting
    draw_flag,       \* Device.draw_flag
    buffer,          \* Screen.buffer, as the set of lit cell indices
    presented,       \* the frame Screen.refresh last wrote and handed to
                     \* Pixels::render
    title,           \* the title of the host's window (set by handle_sound)
    at,              \* where Device::run stands
    cycles,          \* the local `cycles` of Device::run
    sent,            \* every event the host has sent on the channel, in order
    recv_count,      \* how many of them try_recv has handed to Device::run
    app,             \* the host side: "running", "exiting" or "dropped"
    call_sites,      \* history: the calls not yet returned from, each with
                     \* the address it was fetched at and the depth before it
    address,         \* history: I as the sums of the program make it, before
                     \* any of them is cut to the 16 bits of Device.i
    file             \* what Device::load got from opening and reading the ROM file

dev_vars == <<memory, registers, stack, keys, pc, sp, i, dt, st, wait_key,
              draw_flag, buffer>>
vars == <<memory, registers, stack, keys, pc, sp, i, dt, st, wait_key,
          draw_flag, buffer, presented, title, at, cycles, sent, recv_count,
          app, call_sites, address, file>>

----------------------------------------------------------------------------
(* Program constants *)

MEMORY_SIZE == 4096
STACK_SIZE == 16
WIDTH == 64
HEIGHT == 32
BUFFER_SIZE == WIDTH * HEIGHT
PROGRAM_START == 512
PROGRAM_END == 4095
NO_KEY == 255
CYCLES_PER_FRAME == 12
U16 == 65536
U8 == 256

FONT ==
    << 240, 144, 144, 144, 240,
        32,  96,  32,  32, 112,
       240,  16, 240, 128, 240,
       240,  16, 240,  16, 240,
       144, 144, 240,  16,  16,
       240, 128, 240,  16, 240,
       240, 128, 240, 144, 240,
       240,  16,  32,  64,  64,
       240, 144, 240, 144, 240,
       240, 144, 240,  16, 240,
       240, 144, 240, 144, 144,
       224, 144, 224, 144, 224,
       240, 128, 128, 128, 240,
       224, 144, 144, 144, 224,
       240, 128, 240, 128, 240,
       240, 128, 240, 128, 128 >>

----------------------------------------------------------------------------
(* u8 bit operations *)

RECURSIVE BitAnd(_, _)
BitAnd(a, b) ==
    IF a = 0 \/ b = 0 THEN 0
    ELSE (a % 2) * (b % 2) + 2 * BitAnd(a \div 2, b \div 2)

RECURSIVE BitOr(_, _)
BitOr(a, b) ==
    IF a = 0 THEN b
    ELSE IF b = 0 THEN a
    ELSE (IF a % 2 = 1 \/ b % 2 = 1 THEN 1 ELSE 0) + 2 * BitOr(a \div 2, b \div 2)

RECURSIVE BitXor(_, _)
BitXor(a, b) ==
    IF a = 0 THEN b
    ELSE IF b = 0 THEN a
    ELSE ((a + b) % 2) + 2 * BitXor(a \div 2, b \div 2)

----------------------------------------------------------------------------
(* Screen (src/src/screen.rs) *)

\* Screen::clear
clear == {}

\* The inner loop of Screen::draw from column x_column on, for the sprite
\* row `line` at the screen row y_pos.  The result is the buffer, the
\* collision flag and whether an index outside the buffer was reached (a
\* panic).
RECURSIVE draw_line(_, _, _, _, _, _)
draw_line(buf, collision, wrapped_x, y_pos, line, x_column) ==
    LET x_pos == wrapped_x + x_column
        pixel == (line \div (2 ^ (7 - x_column))) % 2
        index == x_pos + (y_pos * WIDTH)
    IN  IF x_column >= 8 \/ x_pos > WIDTH
        THEN [buffer |-> buf, collision |-> collision, panic |-> FALSE]
        ELSE IF pixel # 0
        THEN IF index >= BUFFER_SIZE
             THEN [buffer |-> buf, collision |-> collision, panic |-> TRUE]
             ELSE draw_line(IF index \in buf THEN buf \ {index} ELSE buf \cup {index},
                            collision \/ index \in buf,
                            wrapped_x, y_pos, line, x_column + 1)
        ELSE draw_line(buf, collision, wrapped_x, y_pos, line, x_column + 1)

\* The outer loop of Screen::draw from sprite row y_row on, with the same
\* result.
RECURSIVE draw_scan(_, _, _, _, _, _)
draw_scan(buf, collision, wrapped_x, wrapped_y, sprite, y_row) ==
    IF y_row >= Len(sprite) \/ wrapped_y + y_row > HEIGHT
    THEN [buffer |-> buf, collision |-> collision, panic |-> FALSE]
    ELSE
      LET row == draw_line(buf, collision, wrapped_x, wrapped_y + y_row,
                           sprite[y_row + 1], 0)
      IN  IF row.panic
          THEN row
          ELSE draw_scan(row.buffer, row.collision, wrapped_x, wrapped_y,
                         sprite, y_row + 1)

\* Screen::draw
draw(buf, x, y, sprite) ==
    draw_scan(buf, FALSE, x % WIDTH, y % HEIGHT, sprite, 0)

----------------------------------------------------------------------------
(* Device (src/src/device.rs): the state as one record, the instruction    *)
(* handlers as operators from a device record to a device record           *)

Dev ==
    [memory |-> memory, registers |-> registers, stack |-> stack, keys |-> keys,
     pc |-> pc, sp |-> sp, i |-> i, dt |-> dt, st |-> st, wait_key |-> wait_key,
     draw_flag |-> draw_flag, buffer |-> buffer, panic |-> FALSE]

Panic(d) == [d EXCEPT !.panic = TRUE]

\* Device::register
register(d, index) == d.registers[index]

\* Device::set_flag
set_flag(d, value) == [d EXCEPT !.registers[15] = value]

\* screen.rs line 24: Device::new makes the Screen, which unwraps
\* Pixels::new and panics on an Err
new_panics(pixels_made) == ~pixels_made

\* Device::new
new ==
    [memory |-> [a \in 0..(MEMORY_SIZE - 1) |-> 0],
     registers |-> [r \in 0..15 |-> 0],
     stack |-> [s \in 0..(STACK_SIZE - 1) |-> 0],
     keys |-> [k \in 0..15 |-> FALSE],
     pc |-> PROGRAM_START, sp |-> 0, i |-> 0, dt |-> 0, st |-> 0,
     wait_key |-> NO_KEY, draw_flag |-> FALSE, buffer |-> {}, panic |-> FALSE]

\* what File::open and file.read give for the path: the bytes of the file,
\* or one of these two values, which no sequence of bytes equals
NoFile == <<-1>>
ReadError == <<-2>>

\* the value of `file` before Device::load has opened the ROM file
Unread == <<-3>>

\* lines 65 and 67: File::open(path).unwrap() panics when the path names
\* no file, file.read(program).unwrap() when the read fails
load_panics(rom) == rom \in {NoFile, ReadError}

\* a load that puts the font at 0x50
load_font_at_50(d, rom) ==
    LET bytes == IF Len(rom) < PROGRAM_END - PROGRAM_START
                 THEN Len(rom) ELSE PROGRAM_END - PROGRAM_START
    IN  IF load_panics(rom) THEN Panic(d) ELSE
        [d EXCEPT !.memory =
            [a \in 0..(MEMORY_SIZE - 1) |->
                IF a >= \h50 /\ a < \h50 + Len(FONT) THEN FONT[a - \h50 + 1]
                ELSE IF a >= PROGRAM_START /\ a < PROGRAM_START + bytes
                     THEN rom[a - PROGRAM_START + 1]
                     ELSE d.memory[a]]]

\* Device::load: the file is opened, one read puts its bytes into
\* memory[0x200..0xFFF], then the font is copied to memory[..80]; a failed
\* open or read panics before anything is written
load(d, rom) ==
    LET bytes == IF Len(rom) < PROGRAM_END - PROGRAM_START
                 THEN Len(rom) ELSE PROGRAM_END - PROGRAM_START
    IN  IF load_panics(rom) THEN Panic(d) ELSE
        [d EXCEPT !.memory =
            [a \in 0..(MEMORY_SIZE - 1) |->
                IF a < Len(FONT) THEN FONT[a + 1]
                ELSE IF a >= PROGRAM_START /\ a < PROGRAM_START + bytes
                     THEN rom[a - PROGRAM_START + 1]
                     ELSE d.memory[a]]]

\* handle_delay that decrements without the test, wrapping at 0
handle_delay_wrapping(d) == [d EXCEPT !.dt = (d.dt - 1) % U8]

\* Device::handle_delay
handle_delay(d) == IF d.dt > 0 THEN [d EXCEPT !.dt = d.dt - 1] ELSE d

\* Device::handle_sound (the device part; the title is set by the action)
handle_sound(d) == IF d.st > 0 THEN [d EXCEPT !.st = d.st - 1] ELSE d

\* the title Device::handle_sound gives the host's window
sound_title(d) == IF d.st > 0 THEN "SOUND" ELSE "CHIP8"

\* handle_key that ends the wait on a press as well
handle_key_any_event(d, key, pressed) ==
    LET d1 == [d EXCEPT !.keys[key] = pressed]
    IN  IF d1.wait_key # NO_KEY
        THEN [d1 EXCEPT !.registers[d1.wait_key] = key, !.wait_key = NO_KEY]
        ELSE d1

\* Device::handle_key
handle_key(d, key, pressed) ==
    LET d1 == [d EXCEPT !.keys[key] = pressed]
    IN  IF d1.wait_key # NO_KEY /\ ~pressed
        THEN [d1 EXCEPT !.registers[d1.wait_key] = key, !.wait_key = NO_KEY]
        ELSE d1

\* Device::fetch: the two reads, which panic outside the memory
fetch_panics(d) == d.pc >= MEMORY_SIZE \/ d.pc + 1 >= MEMORY_SIZE

\* Device::fetch: the Opcode it builds
fetch_opcode(d) ==
    LET top == d.memory[d.pc] * 256
        bottom == d.memory[d.pc + 1]
        raw == top + bottom
    IN  [raw |-> raw,
         code |-> (raw \div 4096) * 4096,
         nnn |-> raw % 4096,
         x |-> (raw \div 256) % 16,
         y |-> (raw \div 16) % 16,
         n |-> raw % 16,
         kk |-> bottom]

\* Device::fetch: the device it leaves
fetch(d) == [d EXCEPT !.pc = d.pc + 2]

----------------------------------------------------------------------------
(* The instruction handlers. Each is applied to the device after fetch.    *)

\* a return that takes the oldest return address instead of the newest
op_00ee_oldest(d) ==
    IF d.sp = 0 THEN Panic(d)
    ELSE [d EXCEPT !.sp = d.sp - 1, !.pc = d.stack[0]]

\* Return from a subroutine: sp -= 1 underflows at 0; with overflow checks
\* that panics, without them stack[usize::MAX] panics
op_00ee(d) ==
    IF d.sp = 0 THEN Panic(d)
    ELSE [d EXCEPT !.sp = d.sp - 1, !.pc = d.stack[d.sp - 1]]

\* Clear the display
op_00e0(d) == [d EXCEPT !.buffer = clear, !.draw_flag = TRUE]

\* Jump to location at nnn
op_1nnn(d, nnn) == [d EXCEPT !.pc = nnn]

\* a call that wraps the stack pointer instead of panicking
op_2nnn_wrapping(d, nnn) ==
    [d EXCEPT !.stack[d.sp % STACK_SIZE] = d.pc, !.sp = d.sp + 1, !.pc = nnn]

\* Call subroutine at nnn: stack[sp] panics when sp is 16
op_2nnn(d, nnn) ==
    IF d.sp >= STACK_SIZE THEN Panic(d)
    ELSE [d EXCEPT !.stack[d.sp] = d.pc, !.sp = d.sp + 1, !.pc = nnn]

\* Skip next instruction if Vx = kk
op_3xkk(d, x, kk) ==
    IF register(d, x) = kk THEN [d EXCEPT !.pc = d.pc + 2] ELSE d

\* a 4xkk that skips on equality, as 3xkk does
op_4xkk_equal(d, x, kk) ==
    IF register(d, x) = kk THEN [d EXCEPT !.pc = d.pc + 2] ELSE d

\* Skip next instruction if Vx != kk
op_4xkk(d, x, kk) ==
    IF register(d, x) # kk THEN [d EXCEPT !.pc = d.pc + 2] ELSE d

\* Skip next instruction if Vx = Vy
op_5xy0(d, x, y) ==
    IF register(d, x) = register(d, y) THEN [d EXCEPT !.pc = d.pc + 2] ELSE d

\* Set Vx = kk
op_6xkk(d, x, kk) == [d EXCEPT !.registers[x] = kk]

\* Set Vx = Vx + kk
op_7xkk(d, x, kk) == [d EXCEPT !.registers[x] = (register(d, x) + kk) % U8]

\* Set Vx = Vy
op_8xy0(d, x, y) == [d EXCEPT !.registers[x] = register(d, y)]

\* Set Vx = Vx OR Vy
op_8xy1(d, x, y) ==
    set_flag([d EXCEPT !.registers[x] = BitOr(register(d, x), register(d, y))], 0)

\* Set Vx = Vx AND Vy
op_8xy2(d, x, y) ==
    set_flag([d EXCEPT !.registers[x] = BitAnd(register(d, x), register(d, y))], 0)

\* Set Vx = Vx XOR Vy
op_8xy3(d, x, y) ==
    set_flag([d EXCEPT !.registers[x] = BitXor(register(d, x), register(d, y))], 0)

\* an 8xy4 that carries only above 256
op_8xy4_late_carry(d, x, y) ==
    LET sum == register(d, x) + register(d, y)
    IN  set_flag([d EXCEPT !.registers[x] = sum % U8], IF sum > U8 THEN 1 ELSE 0)

\* Set Vx = Vx + Vy, set VF = carry
op_8xy4(d, x, y) ==
    LET sum == register(d, x) + register(d, y)
    IN  set_flag([d EXCEPT !.registers[x] = sum % U8], IF sum >= U8 THEN 1 ELSE 0)

\* an 8xy5 that takes equal operands for a borrow
op_8xy5_equal_borrows(d, x, y) ==
    LET diff == register(d, x) - register(d, y)
    IN  set_flag([d EXCEPT !.registers[x] = diff % U8], IF diff <= 0 THEN 0 ELSE 1)

\* Set Vx = Vx - Vy, set VF = NOT borrow
op_8xy5(d, x, y) ==
    LET diff == register(d, x) - register(d, y)
    IN  set_flag([d EXCEPT !.registers[x] = diff % U8], IF diff < 0 THEN 0 ELSE 1)

\* Set Vx = Vy SHR 1
op_8xy6(d, x, y) ==
    LET lsb == register(d, y) % 2
    IN  set_flag([d EXCEPT !.registers[x] = register(d, y) \div 2], lsb)

\* Set Vx = Vy - Vx, set VF = NOT borrow
op_8xy7(d, x, y) ==
    LET diff == register(d, y) - register(d, x)
    IN  set_flag([d EXCEPT !.registers[x] = diff % U8], IF diff < 0 THEN 0 ELSE 1)

\* Set Vx = Vy SHL 1
op_8xye(d, x, y) ==
    LET msb == register(d, y) \div 128
    IN  set_flag([d EXCEPT !.registers[x] = (register(d, y) * 2) % U8], msb)

\* Skip next instruction if Vx != Vy
op_9xy0(d, x, y) ==
    IF register(d, x) # register(d, y) THEN [d EXCEPT !.pc = d.pc + 2] ELSE d

\* Set I = nnn
op_annn(d, nnn) == [d EXCEPT !.i = nnn]

\* Jump to location nnn + V0
op_bnnn(d, nnn) == [d EXCEPT !.pc = nnn + register(d, 0)]

\* Set Vx = random byte AND kk
op_cxkk(d, x, kk, random) == [d EXCEPT !.registers[x] = BitAnd(kk, random)]

\* the bytes memory[from..to), a Rust slice
slice(d, from, to) == [k \in 1..(to - from) |-> d.memory[from + k - 1]]

\* Display n-byte sprite starting at memory location I at (Vx, Vy).
\* self.i + n is a u16 sum: it panics on overflow with overflow checks and
\* wraps without; the slice panics when it starts after its end or ends
\* after the memory; Screen::draw panics on a cell outside the buffer.
op_dxyn(d, x, y, n, overflow_checks) ==
    LET x_pos == register(d, x)
        y_pos == register(d, y)
        sum == d.i + n
        end == sum % U16
    IN  IF sum >= U16 /\ overflow_checks THEN Panic(d)
        ELSE IF d.i > end \/ end > MEMORY_SIZE THEN Panic(d)
        ELSE LET res == draw(d.buffer, x_pos, y_pos, slice(d, d.i, end))
             IN  IF res.panic THEN Panic(d)
                 ELSE [set_flag(d, IF res.collision THEN 1 ELSE 0)
                          EXCEPT !.buffer = res.buffer, !.draw_flag = TRUE]

\* Skip the next instruction if key with the value of Vx is pressed:
\* keys[Vx] panics when Vx is above 15
op_ex9e(d, x) ==
    IF register(d, x) > 15 THEN Panic(d)
    ELSE IF d.keys[register(d, x)] THEN [d EXCEPT !.pc = d.pc + 2] ELSE d

\* Skip the next instruction if key with the value of Vx is not pressed
op_exa1(d, x) ==
    IF register(d, x) > 15 THEN Panic(d)
    ELSE IF ~d.keys[register(d, x)] THEN [d EXCEPT !.pc = d.pc + 2] ELSE d

\* Set Vx = delay timer value
op_fx07(d, x) == [d EXCEPT !.registers[x] = d.dt]

\* Wait for a key press, store the value of the key in Vx
op_fx0a(d, x) == [d EXCEPT !.wait_key = x]

\* Set delay timer = Vx
op_fx15(d, x) == [d EXCEPT !.dt = register(d, x)]

\* Set sound timer = Vx
op_fx18(d, x) == [d EXCEPT !.st = register(d, x)]

\* Set I = I + Vx: a u16 sum, which panics on overflow with overflow
\* checks and wraps without
op_fx1e(d, x, overflow_checks) ==
    LET sum == d.i + register(d, x)
    IN  IF sum >= U16 /\ overflow_checks THEN Panic(d)
        ELSE [d EXCEPT !.i = sum % U16]

\* Set I = location of sprite for digit Vx
op_fx29(d, x) == [d EXCEPT !.i = register(d, x) * 5]

\* Store BCD representation of Vx in memory locations I, I+1, and I+2:
\* the first index outside the memory panics
op_fx33(d, x) ==
    LET vx == register(d, x)
    IN  IF d.i + 2 >= MEMORY_SIZE THEN Panic(d)
        ELSE [d EXCEPT !.memory[d.i] = vx \div 100,
                       !.memory[d.i + 1] = (vx % 100) \div 10,
                       !.memory[d.i + 2] = vx % 10]

\* the range i ..= i + x of Fx55 and Fx65 panics: the u16 sum overflows
\* (a panic with overflow checks, a range that starts after its end
\* without), or the range ends after the memory
block_panics(d, x, overflow_checks) ==
    LET sum == d.i + x
        last == sum % U16
    IN  \/ sum >= U16 /\ overflow_checks
        \/ d.i > last + 1
        \/ last + 1 > MEMORY_SIZE
        \/ last + 1 - d.i # x + 1

\* Store registers V0 through Vx in memory starting at location I
op_fx55(d, x, overflow_checks) ==
    IF block_panics(d, x, overflow_checks) THEN Panic(d)
    ELSE [d EXCEPT !.memory = [a \in 0..(MEMORY_SIZE - 1) |->
                                  IF a >= d.i /\ a <= d.i + x
                                  THEN d.registers[a - d.i] ELSE d.memory[a]],
                   !.i = d.i + x + 1]

\* a load that stops before Vx
op_fx65_exclusive(d, x, overflow_checks) ==
    IF block_panics(d, x, overflow_checks) THEN Panic(d)
    ELSE [d EXCEPT !.registers = [r \in 0..15 |->
                                     IF r < x THEN d.memory[d.i + r]
                                     ELSE d.registers[r]],
                   !.i = d.i + x + 1]

\* Read registers V0 through Vx from memory starting at location I
op_fx65(d, x, overflow_checks) ==
    IF block_panics(d, x, overflow_checks) THEN Panic(d)
    ELSE [d EXCEPT !.registers = [r \in 0..15 |->
                                     IF r <= x THEN d.memory[d.i + r]
                                     ELSE d.registers[r]],
                   !.i = d.i + x + 1]

----------------------------------------------------------------------------
(* Device::tick *)

\* the match of Device::tick on the fetched opcode
execute(d, opcode, random, overflow_checks) ==
    CASE opcode.code = \h0000 ->
            (CASE opcode.kk = \hEE -> op_00ee(d)
               [] opcode.kk = \hE0 -> op_00e0(d)
               [] opcode.kk = \h00 -> d
               [] OTHER -> Panic(d))
      [] opcode.code = \h1000 -> op_1nnn(d, opcode.nnn)
      [] opcode.code = \h2000 -> op_2nnn(d, opcode.nnn)
      [] opcode.code = \h3000 -> op_3xkk(d, opcode.x, opcode.kk)
      [] opcode.code = \h4000 -> op_4xkk(d, opcode.x, opcode.kk)
      [] opcode.code = \h5000 -> op_5xy0(d, opcode.x, opcode.y)
      [] opcode.code = \h6000 -> op_6xkk(d, opcode.x, opcode.kk)
      [] opcode.code = \h7000 -> op_7xkk(d, opcode.x, opcode.kk)
      [] opcode.code = \h8000 ->
            (CASE opcode.n = \h0 -> op_8xy0(d, opcode.x, opcode.y)
               [] opcode.n = \h1 -> op_8xy1(d, opcode.x, opcode.y)
               [] opcode.n = \h2 -> op_8xy2(d, opcode.x, opcode.y)
               [] opcode.n = \h3 -> op_8xy3(d, opcode.x, opcode.y)
               [] opcode.n = \h4 -> op_8xy4(d, opcode.x, opcode.y)
               [] opcode.n = \h5 -> op_8xy5(d, opcode.x, opcode.y)
               [] opcode.n = \h6 -> op_8xy6(d, opcode.x, opcode.y)
               [] opcode.n = \h7 -> op_8xy7(d, opcode.x, opcode.y)
               [] opcode.n = \hE -> op_8xye(d, opcode.x, opcode.y)
               [] OTHER -> Panic(d))
      [] opcode.code = \h9000 -> op_9xy0(d, opcode.x, opcode.y)
      [] opcode.code = \hA000 -> op_annn(d, opcode.nnn)
      [] opcode.code = \hB000 -> op_bnnn(d, opcode.nnn)
      [] opcode.code = \hC000 -> op_cxkk(d, opcode.x, opcode.kk, random)
      [] opcode.code = \hD000 -> op_dxyn(d, opcode.x, opcode.y, opcode.n, overflow_checks)
      [] opcode.code = \hE000 ->
            (CASE opcode.kk = \h9E -> op_ex9e(d, opcode.x)
               [] opcode.kk = \hA1 -> op_exa1(d, opcode.x)
               [] OTHER -> Panic(d))
      [] opcode.code = \hF000 ->
            (CASE opcode.kk = \h07 -> op_fx07(d, opcode.x)
               [] opcode.kk = \h0A -> op_fx0a(d, opcode.x)
               [] opcode.kk = \h15 -> op_fx15(d, opcode.x)
               [] opcode.kk = \h18 -> op_fx18(d, opcode.x)
               [] opcode.kk = \h1E -> op_fx1e(d, opcode.x, overflow_checks)
               [] opcode.kk = \h29 -> op_fx29(d, opcode.x)
               [] opcode.kk = \h33 -> op_fx33(d, opcode.x)
               [] opcode.kk = \h55 -> op_fx55(d, opcode.x, overflow_checks)
               [] opcode.kk = \h65 -> op_fx65(d, opcode.x, overflow_checks)
               [] OTHER -> Panic(d))
      [] OTHER -> Panic(d)

\* Device::tick; `random` is the byte rand::random gives Cxkk, and
\* `overflow_checks` the build: an integer overflow panics when it is TRUE
\* (a debug build) and wraps when it is FALSE (a release build)
tick(d, random, overflow_checks) ==
    LET d0 == [d EXCEPT !.draw_flag = FALSE]
    IN  IF fetch_panics(d0) THEN Panic(d0)
        ELSE execute(fetch(d0), fetch_opcode(d0), random, overflow_checks)

----------------------------------------------------------------------------
(* Device::run, one action per step of the loop.  `at` is the place:       *)
(*   "loop"    line 78, the elapsed-time check of the outer loop           *)
(*   "burst"   line 86, the head of the while loop                         *)
(*   "delay"   line 103, "sound" line 104, "refresh" line 105              *)
(*   "events"  line 109, channel.try_recv()                                *)
(*   "exited"  run has returned; "panicked" the thread has panicked;       *)
(*   "killed"  the process has ended with the thread still running         *)
(* and "boot" is main.rs line 20, receiver.recv(), before the Device exists *)

\* the events of the channel (device.rs Event)
KeyEvent(key, pressed) == [type |-> "Key", key |-> key, pressed |-> pressed]
OffEvent == [type |-> "Off", key |-> 0, pressed |-> FALSE]
OnEvent == [type |-> "On", key |-> 0, pressed |-> FALSE]

\* what the channel holds: sent and not yet received
queue == SubSeq(sent, recv_count + 1, Len(sent))

\* the assignment of a device record to the device variables
SetDev(d) ==
    /\ memory' = d.memory
    /\ registers' = d.registers
    /\ stack' = d.stack
    /\ keys' = d.keys
    /\ pc' = d.pc
    /\ sp' = d.sp
    /\ i' = d.i
    /\ dt' = d.dt
    /\ st' = d.st
    /\ wait_key' = d.wait_key
    /\ draw_flag' = d.draw_flag
    /\ buffer' = d.buffer

\* a burst that does not look at wait_key
waiting_ignored(d) == FALSE

\* line 89: the burst stops while the device waits for a key
waiting(d) == d.wait_key # NO_KEY

\* a burst that does not look at the draw flag
drew_ignored(d) == FALSE

\* line 98: the burst stops after a tick that drew
drew(d) == d.draw_flag

\* line 86: the burst goes on while cycles < 12
burst_open(c) == c < CYCLES_PER_FRAME

\* the bytes rand::random::<u8>() may give: every u8
RandomBytes == 0..(U8 - 1)

\* the bytes a tick of device d may draw: rand::random is called by op_cxkk
\* alone, a tick of another instruction draws none and its result does not
\* depend on the byte
random_drawn(d) ==
    IF ~fetch_panics(d) /\ fetch_opcode(d).code = \hC000
    THEN RandomBytes
    ELSE {0}

\* lines 78-83, elapsed >= 1/60: a frame starts
FrameStart ==
    /\ at = "loop"
    /\ at' = "burst"
    /\ cycles' = 0
    /\ UNCHANGED <<dev_vars, presented, title, sent, recv_count, app, call_sites, address, file>>

\* lines 78-80, elapsed < 1/60: no frame in this iteration
FrameSkip ==
    /\ at = "loop"
    /\ at' = "events"
    /\ UNCHANGED <<dev_vars, presented, title, cycles, sent, recv_count, app, call_sites, address, file>>

\* the history of calls after a tick of device d that did not panic: a
\* call is added with its fetch address and depth, a return removes the last
record_call(sites, d) ==
    IF fetch_opcode(d).code = \h2000
    THEN Append(sites, [addr |-> d.pc, depth |-> d.sp])
    ELSE IF fetch_opcode(d).code = \h0000 /\ fetch_opcode(d).kk = \hEE
    THEN SubSeq(sites, 1, Len(sites) - 1)
    ELSE sites

\* what I would hold after a tick of device d that did not panic, and
\* gave device d2, had I no width: Fx1E adds Vx to it and Fx55 and Fx65 add
\* x + 1, Annn and Fx29 assign it, and the u16 sums of the accesses
\* themselves (I + n, I + 1, I + 2, I + x) leave it alone
record_address(exact, d, d2) ==
    LET opcode == fetch_opcode(d)
    IN  IF opcode.code = \hF000 /\ opcode.kk = \h1E
        THEN exact + register(d, opcode.x)
        ELSE IF opcode.code = \hF000 /\ opcode.kk \in {\h55, \h65}
        THEN exact + opcode.x + 1
        ELSE IF opcode.code = \hA000 \/ (opcode.code = \hF000 /\ opcode.kk = \h29)
        THEN d2.i
        ELSE exact

\* lines 86-100: one pass of the while loop that ticks
BurstTick ==
    /\ at = "burst"
    /\ burst_open(cycles)
    /\ ~waiting(Dev)
    /\ UNCHANGED <<presented, title, sent, recv_count, app, file>>
    /\ \E random \in random_drawn(Dev), overflow_checks \in BOOLEAN :
          \E d \in {tick(Dev, random, overflow_checks)} :
              IF d.panic
              THEN /\ at' = "panicked"
                   /\ UNCHANGED <<dev_vars, cycles, call_sites, address>>
              ELSE /\ SetDev(d)
                   /\ cycles' = cycles + 1
                   /\ at' = IF drew(d) THEN "delay" ELSE "burst"
                   /\ call_sites' = record_call(call_sites, Dev)
                   /\ address' = record_address(address, Dev, d)

\* lines 86-91: the while loop ends without a tick
BurstEnd ==
    /\ at = "burst"
    /\ ~burst_open(cycles) \/ waiting(Dev)
    /\ at' = "delay"
    /\ UNCHANGED <<dev_vars, presented, title, cycles, sent, recv_count, app, call_sites, address, file>>

\* line 103
Delay ==
    /\ at = "delay"
    /\ at' = "sound"
    /\ UNCHANGED <<presented, title, cycles, sent, recv_count, app, call_sites, address, file>>
    /\ SetDev(handle_delay(Dev))

\* line 104
Sound ==
    /\ at = "sound"
    /\ at' = "refresh"
    /\ UNCHANGED <<presented, cycles, sent, recv_count, app, call_sites, address, file>>
    /\ title' = sound_title(Dev)
    /\ SetDev(handle_sound(Dev))

\* Screen::refresh copies the buffer into the frame and renders it
refresh(buf) == buf

\* screen.rs line 82: what the unwrap of Pixels::render leaves of the loop,
\* which goes on when the frame was rendered and panics on an Err
refresh_ends(rendered) == IF rendered THEN "events" ELSE "panicked"

\* line 105: the frame is written, then rendered or not
Refresh ==
    /\ at = "refresh"
    /\ presented' = refresh(buffer)
    /\ \E rendered \in BOOLEAN : at' = refresh_ends(rendered)
    /\ UNCHANGED <<dev_vars, title, cycles, sent, recv_count, app, call_sites, address, file>>

\* line 112: what the loop does on Event::Off
on_off == "exited"

\* lines 109-111: try_recv gives a Key event
RecvKey ==
    /\ at = "events"
    /\ recv_count < Len(sent)
    /\ sent[recv_count + 1].type = "Key"
    /\ recv_count' = recv_count + 1
    /\ UNCHANGED <<presented, title, at, cycles, sent, app, call_sites, address, file>>
    /\ SetDev(handle_key(Dev, sent[recv_count + 1].key, sent[recv_count + 1].pressed))

\* lines 109-112: try_recv gives Off
RecvOff ==
    /\ at = "events"
    /\ recv_count < Len(sent)
    /\ sent[recv_count + 1].type = "Off"
    /\ recv_count' = recv_count + 1
    /\ at' = on_off
    /\ UNCHANGED <<dev_vars, presented, title, cycles, sent, app, call_sites, address, file>>

\* line 115: the channel is empty and the sender lives
RecvEmpty ==
    /\ at = "events"
    /\ recv_count = Len(sent)
    /\ app # "dropped"
    /\ at' = "loop"
    /\ UNCHANGED <<dev_vars, presented, title, cycles, sent, recv_count, app, call_sites, address, file>>

\* line 116: the channel is empty and the sender is dropped
RecvDisconnected ==
    /\ at = "events"
    /\ recv_count = Len(sent)
    /\ app = "dropped"
    /\ at' = "exited"
    /\ UNCHANGED <<dev_vars, presented, title, cycles, sent, recv_count, app, call_sites, address, file>>

\* a loop that takes a later On and goes on receiving
on_on_ignored == "events"

\* line 113: what the loop does on Event::On
on_on == "panicked"

\* lines 109-113: try_recv gives On
RecvOn ==
    /\ at = "events"
    /\ recv_count < Len(sent)
    /\ sent[recv_count + 1].type = "On"
    /\ recv_count' = recv_count + 1
    /\ at' = on_on
    /\ UNCHANGED <<dev_vars, presented, title, cycles, sent, app, call_sites, address, file>>

----------------------------------------------------------------------------
(* The runtime thread of main.rs before Device::run *)

\* the device variables while no Device exists
absent ==
    [memory |-> <<>>, registers |-> <<>>, stack |-> <<>>, keys |-> <<>>,
     pc |-> 0, sp |-> 0, i |-> 0, dt |-> 0, st |-> 0, wait_key |-> NO_KEY,
     draw_flag |-> FALSE, buffer |-> {}, panic |-> FALSE]

\* no Device exists
SetBoot ==
    /\ memory = absent.memory
    /\ registers = absent.registers
    /\ stack = absent.stack
    /\ keys = absent.keys
    /\ pc = absent.pc
    /\ sp = absent.sp
    /\ i = absent.i
    /\ dt = absent.dt
    /\ st = absent.st
    /\ wait_key = absent.wait_key
    /\ draw_flag = absent.draw_flag
    /\ buffer = absent.buffer

\* main.rs lines 24-27: the match on the first event
first_event(event) == IF event.type = "On" THEN "loop" ELSE "panicked"

\* main.rs lines 20-30: recv gives the first event; on On the device is
\* made and loaded from what the ROM file holds at that time (roms) and run
\* begins, on any other event the thread panics; Device::new panics when
\* Pixels::new fails, before the ROM file is opened; a load that panics
\* unwinds the thread and drops the device just made
BootRecv(roms) ==
    /\ at = "boot"
    /\ recv_count < Len(sent)
    /\ recv_count' = recv_count + 1
    /\ IF first_event(sent[recv_count + 1]) = "loop"
       THEN \E pixels_made \in BOOLEAN :
               IF new_panics(pixels_made)
               THEN /\ at' = "panicked"
                    /\ UNCHANGED <<dev_vars, file>>
               ELSE \E rom \in roms :
                       /\ file' = rom
                       /\ IF load(new, rom).panic
                          THEN /\ at' = "panicked"
                               /\ UNCHANGED dev_vars
                          ELSE /\ at' = "loop"
                               /\ SetDev(load(new, rom))
       ELSE /\ at' = "panicked"
            /\ UNCHANGED <<dev_vars, file>>
    /\ UNCHANGED <<presented, title, cycles, sent, app, call_sites, address>>

\* main.rs line 20: recv fails once the channel is empty and the sender
\* is dropped, and unwrap panics
BootDisconnected ==
    /\ at = "boot"
    /\ recv_count = Len(sent)
    /\ app = "dropped"
    /\ at' = "panicked"
    /\ UNCHANGED <<dev_vars, presented, title, cycles, sent, recv_count, app, call_sites, address, file>>

----------------------------------------------------------------------------
(* App (src/src/app.rs): the host thread *)

\* at most this many events are sent in a run of the model, the On that
\* starts the runtime thread among them
MaxEvents == 3

\* the keys App::physical_to_chip8_key maps a physical key to
Keys == 0..15

\* the receiver lives as long as the runtime thread runs
receiver_alive == at \notin {"exited", "panicked"}

\* App::window_event, KeyboardInput: send Key(mapped_key, pressed)
SendKey ==
    /\ app \in {"running", "exiting"}
    /\ receiver_alive
    /\ Len(sent) < MaxEvents
    /\ \E key \in Keys, pressed \in BOOLEAN :
          sent' = Append(sent, KeyEvent(key, pressed))
    /\ UNCHANGED <<dev_vars, presented, title, at, cycles, recv_count, app, call_sites, address, file>>

\* App::window_event, CloseRequested: send Off and ask the event loop to
\* exit, on every close request, also one that follows another
SendOff ==
    /\ app \in {"running", "exiting"}
    /\ receiver_alive
    /\ Len(sent) < MaxEvents
    /\ sent' = Append(sent, OffEvent)
    /\ app' = "exiting"
    /\ UNCHANGED <<dev_vars, presented, title, at, cycles, recv_count, call_sites, address, file>>

\* the event loop has ended and main drops the App with its Sender; a send
\* to a dropped receiver panics in send_event and drops it as well
DropSender ==
    /\ app \in {"running", "exiting"}
    /\ app' = "dropped"
    /\ UNCHANGED <<dev_vars, presented, title, at, cycles, sent, recv_count, call_sites, address, file>>

\* the runtime thread is still running
thread_running == at \notin {"exited", "panicked", "killed"}

\* main.rs lines 35-36: run_app has returned and main returns without
\* joining the runtime thread; the process ends and the thread with it,
\* wherever it stands
MainReturns ==
    /\ app = "dropped"
    /\ thread_running
    /\ at' = "killed"
    /\ UNCHANGED <<dev_vars, presented, title, cycles, sent, recv_count, app, call_sites, address, file>>

\* App::resumed: create the window and send On(window). The event loop
\* calls resumed when the application starts and on every later resume, and
\* App itself does not order its handlers: an On may follow an Off.
SendOn ==
    /\ app \in {"running", "exiting"}
    /\ receiver_alive
    /\ Len(sent) < MaxEvents
    /\ sent' = Append(sent, OnEvent)
    /\ UNCHANGED <<dev_vars, presented, title, at, cycles, recv_count, app, call_sites, address, file>>

----------------------------------------------------------------------------
(* The ROMs of the model: each a sequence of big-endian 16-bit words *)

\* the bytes of a sequence of instruction words
Bytes(words) ==
    [k \in 1..(2 * Len(words)) |->
        IF k % 2 = 1 THEN words[(k + 1) \div 2] \div 256 ELSE words[k \div 2] % 256]

\* wait for a key into V3, then set V1 and spin
RomWaitKey == <<\hF30A, \h6101, \h1204>>
\* draw the glyph 0 at (0, 0) again and again
RomDraw == <<\hA000, \hD015, \h1202>>
\* loop for ever without drawing
RomSpin == <<\h1200>>
\* set both timers to 3 and read the delay timer for ever
RomTimers == <<\h6003, \hF015, \hF018, \hF107, \h1206>>
\* clear the screen while key 9 is held
RomKeySkip == <<\h6009, \hE09E, \h1202, \h00E0, \h1202>>

\* the ROMs run against the host's events
HostRoms == {RomWaitKey, RomKeySkip}

\* 2200 calls itself: the 17th call finds the stack full
RomCallOverflow == <<\h2200>>
\* 00EE on an empty stack
RomReturnEmpty == <<\h00EE>>
\* a call chain as deep as the stack: the routine at 0x200 + 4L calls
\* the one at 0x200 + 4(L+1) and returns; the first spins after its call
ChainDepth == 16
RomCallChain ==
    [k \in 1..(2 * ChainDepth + 1) |->
        IF k = 2 * ChainDepth + 1 THEN \h00EE
        ELSE IF k % 2 = 1 THEN \h2000 + PROGRAM_START + 2 * (k + 1)
        ELSE IF k = 2 THEN \h1202
        ELSE \h00EE]
\* two calls of the same routine from different places
RomCallTwice == <<\h2208, \h2208, \h1204, \h0000, \h00EE>>

\* fetches at the end of the memory
RomFetchLast == <<\h1FFF>>
RomFetchEnd == <<\h1FFE>>
RomJumpBeyond == <<\h60FF, \hBFFF>>
\* jumps, calls and computed jumps below 0x200
RomJumpLow == <<\h11F0>>
RomJumpFont == <<\h1000>>
RomCallLow == <<\h21F8>>
RomJumpV0Low == <<\h6008, \hB1F0>>

\* Fx33, Fx55, Fx65 and Dxyn at the end of the memory
RomBcdFits == <<\h60EA, \hAFFD, \hF033, \h1206>>
RomBcdBeyond == <<\h60EA, \hAFFE, \hF033, \h1206>>
RomStoreFits == <<\h6F07, \hAFF0, \hFF55, \hF055, \h1208>>
RomStoreBeyond == <<\h6107, \hAFFF, \hF155, \h1206>>
RomLoadFits == <<\hAFF0, \hFF65, \hF065, \h1206>>
RomLoadBeyond == <<\hAFFF, \hF165, \h1204>>
RomDrawFits == <<\hAFFB, \hD005, \h1204>>
RomDrawBeyond == <<\hAFFC, \hD005, \h1204>>
\* Fx1E raises I above 0xFFF, then each access
RomAddIStore == <<\hAFFF, \h60FF, \hF01E, \hF055, \h1208>>
RomAddILoad == <<\hAFFF, \h60FF, \hF01E, \hF065, \h1208>>
RomAddIBcd == <<\hAFFF, \h60FF, \hF01E, \hF033, \h1208>>
RomAddIDraw == <<\hAFFF, \h60FF, \hF01E, \hD001, \h1208>>
\* Fx1E raises I beyond 0xFFFF: 258 times 255 is 65790
AddSteps == 258
RomAddIWrap ==
    [k \in 1..(AddSteps + 3) |->
        IF k = 1 THEN \h60FF
        ELSE IF k = AddSteps + 2 THEN \hF065
        ELSE IF k = AddSteps + 3 THEN \h1000 + PROGRAM_START + 2 * (AddSteps + 2)
        ELSE \hF01E]

\* Fx1E raises I to 0xFFFF, the largest u16, in steps of 255 and one last
\* step of what is left, then the access, whose own sum I + x, I + n or
\* I + 1 is beyond 0xFFFF
TopSteps == (U16 - 1 - \hFFF) \div 255
TopRest == (U16 - 1 - \hFFF) % 255
RomAddITop(access) ==
    [k \in 1..(TopSteps + 6) |->
        IF k = 1 THEN \h60FF
        ELSE IF k = 2 THEN \hAFFF
        ELSE IF k = TopSteps + 3 THEN \h6000 + TopRest
        ELSE IF k = TopSteps + 5 THEN access
        ELSE IF k = TopSteps + 6 THEN \h1000 + PROGRAM_START + 2 * (TopSteps + 5)
        ELSE \hF01E]
TopAccesses == {\hF155, \hF165, \hF033, \hD001}

\* one word of each instruction class whose decoding looks below the top
\* nibble, followed by two jumps to themselves (the second for a skip)
DecodeLow ==
    (0..16) \cup {\h15, \h18, \h1E, \h29, \h33, \h55, \h65, \h75, \h9E, \hA1,
                  \hE0, \hEE, \hFF}
DecodeWords ==
    {hi * 4096 + x * 256 + lo : hi \in {0, 5, 8, 9, 14, 15}, x \in {0, 1}, lo \in DecodeLow}
DecodeRom(word) == <<word, \h1202, \h1204>>

\* the words that hold the bytes of a sprite, the last one padded with 0
SpriteWords(sprite) ==
    [k \in 1..((Len(sprite) + 1) \div 2) |->
        sprite[2 * k - 1] * 256 + (IF 2 * k <= Len(sprite) THEN sprite[2 * k] ELSE 0)]

\* the sprite of a draw ROM is behind its seven instructions
DrawSpriteAt == PROGRAM_START + 14

\* clear the screen (first = 00E0) or draw the glyph 0 at (0, 0) (first =
\* D225), then draw the sprite at (x, y) twice and spin
DrawRom(first, x, y, sprite) ==
    <<first, \h6000 + x, \h6100 + y, \hA000 + DrawSpriteAt,
      \hD010 + Len(sprite), \hD010 + Len(sprite), \h120C>> \o SpriteWords(sprite)

\* positions in the grid, at its right and bottom edges and beyond 63, 31
DrawXs == {0, 5, 56, 57, 63, 64, 250}
DrawYs == {0, 27, 31, 32, 255}
\* sprites of 1, 2 and 15 rows
DrawSprites ==
    {<<\h80>>, <<\h01>>, <<\hFF>>, <<\hFF, \h81>>, [r \in 1..15 |-> \hFF]}
DrawRoms ==
    {DrawRom(first, x, y, sprite) :
        first \in {\h00E0, \hD225}, x \in DrawXs, y \in DrawYs, sprite \in DrawSprites}

\* the program of two bytes 61 42
RomSetV1 == <<\h6142>>

\* V0 = a, V1 = b, V3 = 9, then each skip instruction, followed by a word
\* that marks a register of its own when it is not skipped; the two key
\* skips are run again and again
RomSkips(a, b) ==
    <<\h6000 + a, \h6100 + b, \h6309,
      \h3007, \h6401, \h4007, \h6501, \h5010, \h6601, \h9010, \h6701,
      \hE39E, \h6801, \hE3A1, \h6901, \h1216>>
SkipValues == {7, 8}
SkipRoms == {RomSkips(a, b) : a \in SkipValues, b \in SkipValues}

\* a call and its return, then the instructions that neither skip nor
\* draw, a computed jump over one word, a wait for a key and a spin
RomTour ==
    <<\h2204, \h1206, \h00EE, \h00E0, \h6A05, \h8BA0, \h8BA1, \h8BA2,
      \h8BA3, \h8BA6, \h8BAE, \hA300, \hCC0F, \hFA15, \hFA18, \hFB07,
      \hFA1E, \hFA33, \h6002, \hB228, \h1228, \hF30A, \h122C>>

\* Vx = a and Vy = b before each of 8xy4, 8xy5 and 8xy7, then Vx = a and
\* 7xkk with kk = b, then a spin
AluRom(x, y, a, b) ==
    LET set_x == \h6000 + x * 256 + a
        set_y == \h6000 + y * 256 + b
        xy == x * 256 + y * 16
    IN  <<set_x, set_y, \h8004 + xy, set_x, set_y, \h8005 + xy,
          set_x, set_y, \h8007 + xy, set_x, \h7000 + x * 256 + b, \h1216>>
AluRegisters == {0, 1, 15}
AluValues == {0, 1, 127, 128, 255}
AluRoms ==
    {AluRom(x, y, a, b) :
        x \in AluRegisters, y \in AluRegisters, a \in AluValues, b \in AluValues}

\* Vr = 0x10 + r for every register, I = base and Fx55; then Vr = 0xC0 + r
\* for every register, I = base again and Fx65; then a spin
BlockRom(x, base) ==
    [k \in 1..37 |->
        IF k <= 16 THEN \h6010 + (k - 1) * 256 + (k - 1)
        ELSE IF k = 17 \/ k = 35 THEN \hA000 + base
        ELSE IF k = 18 THEN \hF055 + x * 256
        ELSE IF k <= 34 THEN \h60C0 + (k - 19) * 256 + (k - 19)
        ELSE IF k = 36 THEN \hF065 + x * 256
        ELSE \h1248]
BlockLast == {0, 1, 7, 15}
BlockRoms ==
    {BlockRom(x, base) : x \in BlockLast, base \in {\h300, \hFF0}}
    \cup {BlockRom(x, \hFFF - x) : x \in BlockLast}

\* Vx = digit, Fx29, then a spin
FontRom(x, digit) == <<\h6000 + x * 256 + digit, \hF029 + x * 256, \h1204>>
FontRoms == {FontRom(x, digit) : x \in {0, 14}, digit \in 0..15}

\* Vx = a and Vy = b before each of 8xy6 and 8xyE, then a spin
ShiftRom(x, y, a, b) ==
    LET set_x == \h6000 + x * 256 + a
        set_y == \h6000 + y * 256 + b
        xy == x * 256 + y * 16
    IN  <<set_x, set_y, \h8006 + xy, set_x, set_y, \h800E + xy, \h120C>>
ShiftValues == {1, 2, 129, 255}
ShiftRoms ==
    {ShiftRom(x, y, a, b) :
        x \in AluRegisters, y \in AluRegisters, a \in ShiftValues, b \in ShiftValues}

\* V3 = 9, the two key skips, each followed by a word that marks a register
\* when it is not skipped, then the word 0xFFFF, which ends the run
RomKeys == <<\h6309, \hE39E, \h6801, \hE3A1, \h6901, \hFFFF>>

\* the ROM in whose runs the host presses and releases keys
KeyRoms == {RomKeys}

\* the ROMs of the instruction-level runs
OpRoms ==
    DrawRoms \cup {RomSetV1} \cup SkipRoms \cup KeyRoms \cup {RomTour} \cup AluRoms
    \cup BlockRoms \cup FontRoms \cup ShiftRoms

\* the ROMs run without a host
CpuRoms ==
    {RomCallOverflow, RomReturnEmpty, RomCallChain, RomCallTwice,
     RomFetchLast, RomFetchEnd, RomJumpBeyond,
     RomJumpLow, RomJumpFont, RomCallLow, RomJumpV0Low,
     RomBcdFits, RomBcdBeyond, RomStoreFits, RomStoreBeyond, RomLoadFits,
     RomLoadBeyond, RomDrawFits, RomDrawBeyond,
     RomAddIStore, RomAddILoad, RomAddIBcd, RomAddIDraw, RomAddIWrap}
    \cup {RomAddITop(access) : access \in TopAccesses}
    \cup {DecodeRom(word) : word \in DecodeWords}
    \cup HostRoms \cup {RomDraw, RomSpin, RomTimers}

----------------------------------------------------------------------------
(* The specifications *)

\* main.rs: the first event, On, has been sent and received; Device::new,
\* Device::load, then Device::run
Boot(roms) ==
    \E words \in roms :
       \E d \in {load(new, Bytes(words))} :
           /\ memory = d.memory
           /\ registers = d.registers
           /\ stack = d.stack
           /\ keys = d.keys
           /\ pc = d.pc
           /\ sp = d.sp
           /\ i = d.i
           /\ dt = d.dt
           /\ st = d.st
           /\ wait_key = d.wait_key
           /\ draw_flag = d.draw_flag
           /\ buffer = d.buffer
           /\ presented = {}
           /\ title = "CHIP8"
           /\ at = "loop"
           /\ cycles = 0
           /\ sent = <<OnEvent>>
           /\ recv_count = 1
           /\ app = "running"
           /\ call_sites = <<>>
           /\ address = d.i
           /\ file = Bytes(words)

Init == Boot(HostRoms)

\* the steps of the runtime thread
Run ==
    \/ FrameStart
    \/ FrameSkip
    \/ BurstTick
    \/ BurstEnd
    \/ Delay
    \/ Sound
    \/ Refresh
    \/ RecvKey
    \/ RecvOff
    \/ RecvOn
    \/ RecvEmpty
    \/ RecvDisconnected

\* the steps of the host thread
Host ==
    \/ SendKey
    \/ SendOff
    \/ SendOn
    \/ DropSender
    \/ MainReturns

Next == Run \/ Host

\* the device and the host
Spec == Init /\ [][Next]_vars

InitCpu == Boot(CpuRoms)

\* the runtime thread alone, with a host that sends nothing
NextCpu ==
    \/ FrameStart
    \/ FrameSkip
    \/ BurstTick
    \/ BurstEnd
    \/ Delay
    \/ Sound
    \/ Refresh
    \/ RecvEmpty

\* the device on its own
SpecCpu == InitCpu /\ [][NextCpu]_vars

InitOps == Boot(OpRoms)

\* the loaded ROM is one of KeyRoms
key_program == file \in {Bytes(words) : words \in KeyRoms}

\* the runtime thread, and a host that presses and releases keys in the
\* runs of KeyRoms
NextKeys ==
    \/ NextCpu
    \/ key_program /\ SendKey
    \/ key_program /\ RecvKey

\* the device on the ROMs that exercise single instructions
SpecOps == InitOps /\ [][NextCpu]_vars

\* the same with the keys of the host
SpecKeys == InitOps /\ [][NextKeys]_vars

\* a ROM file of len bytes: the word 0xFFFF, which no arm of tick matches
\* (the run ends at its first tick), then bytes 0xAA
LoadFile(len) ==
    [k \in 1..len |-> IF k <= 2 THEN \hFF ELSE \hAA]

\* the sizes of the files: small, and around the size of 0x200..0xFFF
LoadSizes ==
    {2, MEMORY_SIZE - PROGRAM_START - 1, MEMORY_SIZE - PROGRAM_START,
     MEMORY_SIZE - PROGRAM_START + 1}

\* what the ROM file may hold in the runs that begin before the first event
BootRoms ==
    {Bytes(RomWaitKey), NoFile, ReadError} \cup {LoadFile(len) : len \in LoadSizes}

\* main.rs: the thread is spawned and waits for its first event
InitBoot ==
    /\ SetBoot
    /\ presented = {}
    /\ title = "CHIP8"
    /\ at = "boot"
    /\ cycles = 0
    /\ sent = <<>>
    /\ recv_count = 0
    /\ app = "running"
    /\ call_sites = <<>>
    /\ address = absent.i
    /\ file = Unread

\* both threads from the start of main
NextBoot ==
    \/ BootRecv(BootRoms)
    \/ BootDisconnected
    \/ Run
    \/ Host

SpecBoot == InitBoot /\ [][NextBoot]_vars

----------------------------------------------------------------------------
(* Properties *)

\* a step of the model is a tick: only BurstTick raises cycles or panics
TickStep == at = "burst" /\ (cycles' = cycles + 1 \/ at' = "panicked")

\* the opcode the next tick fetches
Fetched == fetch_opcode(Dev)

\* the step hands the next event of the channel, Key(key, pressed), to
\* handle_key
KeyHandled(key, pressed) ==
    /\ at = "events"
    /\ recv_count < Len(sent)
    /\ recv_count' = recv_count + 1
    /\ sent[recv_count + 1] = KeyEvent(key, pressed)

\* C1: while the device waits for a key (wait_key is a register index), no
\* step changes the program counter, I, the memory, the stack, the stack
\* pointer or the framebuffer, whatever frames pass and whatever presses
\* are handled; wait_key and the registers change only in the step that
\* handles a key release.
C1_WaitSuspends ==
    [][ wait_key # NO_KEY =>
          /\ pc' = pc
          /\ i' = i
          /\ memory' = memory
          /\ stack' = stack
          /\ sp' = sp
          /\ buffer' = buffer
          /\ cycles' = cycles \/ cycles' = 0
          /\ (~ \E key \in 0..15 : KeyHandled(key, FALSE)) =>
                (wait_key' = wait_key /\ registers' = registers) ]_vars

\* C1: the device waits on V3, a frame is passing without a tick, and a
\* press of key 9 has been handled
C1_Witness ==
    /\ wait_key = 3
    /\ at = "refresh"
    /\ cycles = 0
    /\ keys[9]
    /\ pc = PROGRAM_START + 2

\* C2: handling Key(k, pressed) sets keys[k] to pressed; when the device
\* waits on Vx and the event is a release it also stores k in Vx and ends
\* the wait, and in every other case (a press while waiting, any event
\* while running) it changes nothing else; a frame begun while the device
\* is not waiting ticks at least once.
C2_KeyWakeUp ==
    [][ /\ \A key \in 0..15, pressed \in BOOLEAN :
              KeyHandled(key, pressed) =>
                /\ keys' = [keys EXCEPT ![key] = pressed]
                /\ IF wait_key # NO_KEY /\ ~pressed
                   THEN /\ registers' = [registers EXCEPT ![wait_key] = key]
                        /\ wait_key' = NO_KEY
                   ELSE /\ registers' = registers
                        /\ wait_key' = wait_key
                /\ UNCHANGED <<memory, stack, pc, sp, i, dt, st, draw_flag, buffer>>
        /\ (at = "burst" /\ at' = "delay" /\ wait_key = NO_KEY) => cycles' >= 1
      ]_vars

\* C2: the release of key 9 was stored in V3 and the program went on to
\* execute 6101
C2_Witness ==
    /\ registers[3] = 9
    /\ registers[1] = 1
    /\ wait_key = NO_KEY
    /\ ~keys[9]

\* the instruction patterns of the specification's table
Known(raw) ==
    LET hi == raw \div 4096
        kk == raw % 256
        n == raw % 16
    IN  \/ raw = \h00E0
        \/ raw = \h00EE
        \/ hi \in {1, 2, 3, 4, 6, 7, 10, 11, 12, 13}
        \/ hi \in {5, 9} /\ n = 0
        \/ hi = 8 /\ n \in (0..7) \cup {14}
        \/ hi = 14 /\ kk \in {\h9E, \hA1}
        \/ hi = 15 /\ kk \in {\h07, \h0A, \h15, \h18, \h1E, \h29, \h33, \h55, \h65}

\* C3: a tick that fetches a word matching none of the instruction
\* patterns panics: it never goes on to the next address.
C3_DecodeErrorsFatal ==
    [][ (TickStep /\ ~fetch_panics(Dev) /\ ~Known(Fetched.raw)) => at' = "panicked" ]_vars

\* the next tick executes a call, a return
IsCall == ~fetch_panics(Dev) /\ Fetched.code = \h2000
IsReturn == ~fetch_panics(Dev) /\ Fetched.code = \h0000 /\ Fetched.kk = \hEE

\* C4: the stack pointer is always in 0..16 and the stack has its 16
\* slots; a call with 16 addresses stacked and a return with none panic;
\* a call that does not panic writes the slot sp, which is in 0..15, and no
\* other.
C4_StackPointer ==
    [][ /\ sp' \in 0..STACK_SIZE
        /\ DOMAIN stack' = 0..(STACK_SIZE - 1)
        /\ (TickStep /\ IsCall /\ sp = STACK_SIZE) => at' = "panicked"
        /\ (TickStep /\ IsReturn /\ sp = 0) => at' = "panicked"
        /\ (TickStep /\ IsCall /\ at' # "panicked") =>
              /\ sp \in 0..(STACK_SIZE - 1)
              /\ sp' = sp + 1
              /\ stack' = [stack EXCEPT ![sp] = pc + 2]
        /\ (TickStep /\ IsReturn /\ at' # "panicked") =>
              /\ sp - 1 \in 0..(STACK_SIZE - 1)
              /\ sp' = sp - 1
              /\ stack' = stack
      ]_vars

\* C4: the 17th nested call has panicked with the stack full
C4_Witness ==
    /\ at = "panicked"
    /\ sp = STACK_SIZE
    /\ IsCall

\* C5: a return that does not panic goes to the address after the last
\* call not yet returned from and restores the depth that call was made at;
\* the calls not yet returned from are as many as the stack pointer says.
C5_CallReturn ==
    [][ /\ Len(call_sites') = sp'
        /\ (TickStep /\ IsReturn /\ at' # "panicked") =>
              /\ call_sites # <<>>
              /\ pc' = call_sites[Len(call_sites)].addr + 2
              /\ sp' = call_sites[Len(call_sites)].depth
        /\ (TickStep /\ IsCall /\ at' # "panicked") =>
              /\ pc' = Fetched.nnn
              /\ sp < STACK_SIZE
      ]_vars

\* C5: the chain of 16 nested calls has returned to the first caller
C5_Witness ==
    /\ pc = PROGRAM_START + 2
    /\ sp = 0
    /\ stack[STACK_SIZE - 1] # 0
    /\ stack[0] = PROGRAM_START + 2

\* the cells a tick of the fetched instruction may write: I..I+2 for
\* Fx33, I..I+x for Fx55, none for any other; I is taken as the sums of
\* the program make it
Written ==
    IF Fetched.code = \hF000 /\ Fetched.kk = \h33 THEN address..(address + 2)
    ELSE IF Fetched.code = \hF000 /\ Fetched.kk = \h55
    THEN address..(address + Fetched.x)
    ELSE {}

\* the last address the fetched instruction reads or writes through I
\* (I + n - 1 for Dxyn, I + 2 for Fx33, I + x for Fx55 and Fx65), or -1
LastAccess ==
    IF Fetched.code = \hD000 /\ Fetched.n > 0 THEN address + Fetched.n - 1
    ELSE IF Fetched.code = \hF000 /\ Fetched.kk = \h33 THEN address + 2
    ELSE IF Fetched.code = \hF000 /\ Fetched.kk \in {\h55, \h65}
    THEN address + Fetched.x
    ELSE 0 - 1

\* C6: a tick whose fetch would read beyond the memory (PC + 1 > 4095), or
\* whose Dxyn, Fx33, Fx55 or Fx65 would reach a cell beyond it (I + n - 1,
\* I + 2, I + x > 4095, with I as Annn, Fx29, Fx1E, Fx55 and Fx65 have made
\* it, however far above 0xFFF), panics; a tick that does not panic writes
\* only the cells I..I+2 (Fx33) or I..I+x (Fx55) with the digits or
\* registers, and Fx65 loads Vk from the cell I + k: no address is reduced
\* modulo 4096 or 65536, neither in the sum of the access nor in I itself.
C6_MemoryInRange ==
    [][ TickStep =>
          /\ DOMAIN memory' = 0..(MEMORY_SIZE - 1)
          /\ pc + 1 > MEMORY_SIZE - 1 => at' = "panicked"
          /\ pc + 1 <= MEMORY_SIZE - 1 =>
               /\ LastAccess > MEMORY_SIZE - 1 => at' = "panicked"
               /\ (at' # "panicked" /\ LastAccess >= 0) =>
                    /\ i = address
                    /\ \/ memory' = memory
                       \/ \A a \in 0..(MEMORY_SIZE - 1) :
                             memory'[a] # memory[a] => a \in Written
                    /\ (Fetched.code = \hF000 /\ Fetched.kk = \h55) =>
                          \A r \in 0..Fetched.x : memory'[address + r] = registers[r]
                    /\ (Fetched.code = \hF000 /\ Fetched.kk = \h65) =>
                          \A r \in 0..Fetched.x : registers'[r] = memory[address + r]
                    /\ (Fetched.code = \hF000 /\ Fetched.kk = \h33) =>
                          /\ memory'[address] = registers[Fetched.x] \div 100
                          /\ memory'[address + 1] = (registers[Fetched.x] \div 10) % 10
                          /\ memory'[address + 2] = registers[Fetched.x] % 10
               /\ (at' # "panicked" /\ LastAccess < 0) => memory' = memory
      ]_vars

\* C7: whenever a tick is about to fetch, the program counter is at least
\* 0x200.
C7_ProgramRegion ==
    (at = "burst" /\ burst_open(cycles) /\ ~waiting(Dev)) => pc >= PROGRAM_START

\* the fetched instruction marks a draw (is dispatched to op_00e0 or op_dxyn)
IsDraw ==
    \/ Fetched.code = \h0000 /\ Fetched.kk = \hE0
    \/ Fetched.code = \hD000

\* C8: a frame ticks at most 12 times; a tick happens only while fewer than
\* 12 have, the device is not waiting for a key and no earlier tick of the
\* frame drew; a tick leaves the draw flag set exactly when it executed a
\* clear or a draw; and the burst ends only after 12 ticks, after a tick
\* that drew, or with the device waiting.
C8_BurstBound ==
    [][ /\ cycles' \in 0..CYCLES_PER_FRAME
        /\ TickStep =>
              /\ cycles < CYCLES_PER_FRAME
              /\ wait_key = NO_KEY
              /\ cycles > 0 => ~draw_flag
              /\ at' # "panicked" => (draw_flag' <=> IsDraw)
        /\ (at = "burst" /\ at' = "delay") =>
              \/ cycles' = CYCLES_PER_FRAME
              \/ cycles' >= 1 /\ draw_flag'
              \/ wait_key' # NO_KEY
      ]_vars

\* C8: a burst has ended early, after a tick that drew
C8_Witness ==
    /\ at = "delay"
    /\ draw_flag
    /\ cycles \in 1..(CYCLES_PER_FRAME - 1)
    /\ buffer # {}

\* the fetched instruction sets the delay timer, the sound timer
SetsDelay == ~fetch_panics(Dev) /\ Fetched.code = \hF000 /\ Fetched.kk = \h15
SetsSound == ~fetch_panics(Dev) /\ Fetched.code = \hF000 /\ Fetched.kk = \h18

\* C9: a frame goes from the burst to the delay step, the sound step, the
\* refresh and then the event drain, in this order and with nothing else
\* in between; the delay step and the sound step lower their timer by 1
\* when it is above 0 and leave it at 0 otherwise; the refresh writes the
\* buffer to the frame and hands it to the renderer (the loop panics when
\* the renderer fails); no other step changes a timer, but a tick of Fx15
\* or Fx18, and no other step presents a frame.
C9_FrameSequence ==
    [][ /\ at = "burst" => at' \in {"burst", "delay", "panicked"}
        /\ at = "delay" => at' \in {"delay", "sound"}
        /\ at = "sound" => at' \in {"sound", "refresh"}
        /\ at = "refresh" => at' \in {"refresh", "events", "panicked"}
        /\ at' = "events" => at \in {"events", "refresh", "loop"}
        /\ (at = "delay" /\ at' = "sound") =>
              /\ dt' = IF dt > 0 THEN dt - 1 ELSE 0
              /\ st' = st
        /\ (at = "sound" /\ at' = "refresh") =>
              /\ st' = IF st > 0 THEN st - 1 ELSE 0
              /\ dt' = dt
        /\ (at = "refresh" /\ at' # "refresh") => presented' = buffer
        /\ dt' # dt => (at = "delay" /\ at' = "sound") \/ (TickStep /\ SetsDelay)
        /\ st' # st => (at = "sound" /\ at' = "refresh") \/ (TickStep /\ SetsSound)
        /\ presented' # presented => (at = "refresh" /\ at' # "refresh")
        /\ dt' \in 0..(U8 - 1) /\ st' \in 0..(U8 - 1)
      ]_vars

\* C9: both timers were set to 3 and have run down to 0, one step a frame,
\* and a frame is at its refresh
C9_Witness ==
    /\ at = "refresh"
    /\ registers[0] = 3
    /\ registers[1] = 0
    /\ dt = 0
    /\ st = 0
    /\ pc >= PROGRAM_START + 6

\* the step receives the next event of the channel
Received == recv_count' = recv_count + 1

\* the place of the first Off among the events sent, 0 when none was sent
OffIndex ==
    IF \E j \in 1..Len(sent) : sent[j].type = "Off"
    THEN CHOOSE j \in 1..Len(sent) :
            /\ sent[j].type = "Off"
            /\ \A k \in 1..(j - 1) : sent[k].type # "Off"
    ELSE 0

\* Off has been sent, or the sender has been dropped
ShutdownPending == OffIndex > 0 \/ app = "dropped"

\* C10: once Off is sent or the sender dropped, the loop is not cut off
\* before its exit; a drain that begins or goes on with the shutdown
\* pending never returns to the timing check, it handles events or exits,
\* so that at most the frame begun before it runs, of at most 12 ticks;
\* the loop exits only on Off, with every event sent before it handled, or
\* on the sender dropped with every event sent handled; no event sent after
\* the first Off is ever received.
C10_Shutdown ==
    [][ /\ (ShutdownPending /\ thread_running) => at' # "killed"
        /\ (ShutdownPending /\ at = "events") => at' \in {"events", "exited"}
        /\ cycles' <= CYCLES_PER_FRAME
        /\ OffIndex' > 0 => recv_count' <= OffIndex'
        /\ (at # "exited" /\ at' = "exited") =>
              IF OffIndex > 0
              THEN recv_count' = OffIndex /\ recv_count = OffIndex - 1
              ELSE app = "dropped" /\ recv_count' = Len(sent)
        /\ at = "exited" => (at' = "exited" /\ recv_count' = recv_count)
      ]_vars

\* a Device exists
constructed == DOMAIN memory # {}

\* C11: a first event other than On makes the runtime thread panic with no
\* Device made; the first On makes and loads the Device and starts the loop
\* (or panics with no Device left: in Device::new, the ROM file unread, or
\* in the load when the ROM file cannot be read);
\* an On received by the loop makes it panic, the device left as it was and
\* the events behind it never received; a panicked thread does nothing more.
C11_ProtocolFatal ==
    [][ /\ (at = "boot" /\ Received /\ sent[recv_count + 1].type # "On") =>
              (at' = "panicked" /\ ~constructed')
        /\ (at = "boot" /\ Received /\ sent[recv_count + 1].type = "On") =>
              /\ recv_count = 0
              /\ IF file' = Unread \/ load_panics(file')
                 THEN at' = "panicked" /\ ~constructed'
                 ELSE at' = "loop" /\ constructed'
        /\ (at # "boot" /\ Received /\ sent[recv_count + 1].type = "On") =>
              (at' = "panicked" /\ UNCHANGED dev_vars)
        /\ at = "boot" => ~constructed
        /\ at = "panicked" =>
              (at' = "panicked" /\ recv_count' = recv_count /\ UNCHANGED dev_vars)
      ]_vars

\* C11: the loop has panicked on a second On, received after a key event
\* that it handled
C11_Witness ==
    /\ at = "panicked"
    /\ constructed
    /\ Len(sent) = 3
    /\ sent[1].type = "On"
    /\ sent[2].type = "Key"
    /\ sent[3].type = "On"
    /\ recv_count = 3
    /\ keys[sent[2].key] = sent[2].pressed

\* C12: the runtime thread leaves what the host owns alone: no step of
\* Device::run changes the title of the host's window, and none sends an
\* event or touches the host's side of the channel.
C12_OneDirectional ==
    [][(at \notin {"boot", "exited", "panicked"} /\ (at' # at \/ cycles' # cycles
                                                     \/ recv_count' # recv_count))
          => (title' = title /\ sent' = sent /\ app' = app)]_vars

\* the files of the draw ROMs, and what the loaded one draws: the
\* position from its 6xkk words, the rows from its Dxyn word and the bytes
\* behind its instructions
DrawFiles == {Bytes(words) : words \in DrawRoms}
DrawnX == file[4]
DrawnY == file[6]
DrawnSprite == [r \in 1..(file[10] % 16) |-> file[14 + r]]

\* the cells that the set bits of a sprite at (x, y) cover inside the grid
Visible(x, y, sprite) ==
    {((x % WIDTH) + c) + WIDTH * ((y % HEIGHT) + r) :
        <<r, c>> \in {rc \in (0..(Len(sprite) - 1)) \X (0..7) :
                        /\ (sprite[rc[1] + 1] \div (2 ^ (7 - rc[2]))) % 2 = 1
                        /\ (x % WIDTH) + rc[2] < WIDTH
                        /\ (y % HEIGHT) + rc[1] < HEIGHT}}

\* the grid before the two draws: unlit, or the glyph 0 at (0, 0)
PriorGrid ==
    IF file[1] = \hD2 THEN Visible(0, 0, <<\hF0, \h90, \h90, \h90, \hF0>>) ELSE {}

\* the device stands after the first draw of a draw ROM, after the second
AfterFirstDraw == file \in DrawFiles /\ pc = PROGRAM_START + 10
AfterSecondDraw == file \in DrawFiles /\ pc = PROGRAM_START + 12

\* C13: both draws of a sprite at the same place return (no tick of a
\* draw ROM panics); on an unlit grid
\* the first returns no collision (VF = 0) and the second a collision
\* (VF = 1); after the second the grid is what it was before the first.
C13_DrawInvolution ==
    /\ [][(file \in DrawFiles /\ TickStep) => at' # "panicked"]_vars
    /\ [](/\ (AfterFirstDraw /\ PriorGrid = {}) => registers[15] = 0
          /\ (AfterSecondDraw /\ PriorGrid = {}) => registers[15] = 1
          /\ AfterSecondDraw => buffer = PriorGrid)

\* C14: a draw toggles the cells that the set bits of the sprite cover at
\* column x mod 64 + c < 64 and row y mod 32 + r < 32, and no other cell.
C14_Clipping ==
    AfterFirstDraw =>
        LET cells == Visible(DrawnX, DrawnY, DrawnSprite)
        IN  buffer = (PriorGrid \ cells) \cup (cells \ PriorGrid)

\* the step is a tick that returns
TickDone == at = "burst" /\ cycles' = cycles + 1

\* the fetched instruction assigns the PC: 1nnn, 2nnn, 00EE, Bnnn
AssignsPc ==
    \/ Fetched.code \in {\h1000, \h2000, \hB000}
    \/ Fetched.code = \h0000 /\ Fetched.kk = \hEE

\* the fetched instruction is a skip whose condition holds
SkipHolds ==
    LET vx == registers[Fetched.x]
        vy == registers[Fetched.y]
    IN  CASE Fetched.code = \h3000 -> vx = Fetched.kk
          [] Fetched.code = \h4000 -> vx # Fetched.kk
          [] Fetched.code = \h5000 -> vx = vy
          [] Fetched.code = \h9000 -> vx # vy
          [] Fetched.code = \hE000 /\ Fetched.kk = \h9E -> keys[vx]
          [] Fetched.code = \hE000 /\ Fetched.kk = \hA1 -> ~keys[vx]
          [] OTHER -> FALSE

\* C15: a tick that fetches at address a leaves PC = a + 4 when the
\* instruction is a skip whose condition holds and PC = a + 2 when it is any
\* other instruction that does not assign the PC; 1nnn and 2nnn leave
\* PC = nnn, Bnnn PC = nnn + V0 and 00EE the return address.  The first tick
\* of the program 61 42 gives V1 = 0x42 and PC = 0x202 and changes no other
\* register.
C15_PcAdvance ==
    [][TickDone =>
         /\ ~AssignsPc => pc' = pc + (IF SkipHolds THEN 4 ELSE 2)
         /\ Fetched.code \in {\h1000, \h2000} => pc' = Fetched.nnn
         /\ Fetched.code = \hB000 => pc' = Fetched.nnn + registers[0]
         /\ (Fetched.code = \h0000 /\ Fetched.kk = \hEE) => pc' = stack[sp - 1]
         /\ (file = <<\h61, \h42>> /\ pc = PROGRAM_START) =>
               /\ registers' = [r \in 0..15 |-> IF r = 1 THEN \h42 ELSE 0]
               /\ pc' = \h202
               /\ i' = 0 /\ sp' = 0 /\ dt' = 0 /\ st' = 0
               /\ stack' = stack /\ memory' = memory
      ]_vars

\* C15: with key 9 held down and key 2 as well, Ex9E has skipped the word
\* behind it (V8 is not marked) and ExA1 has not (V9 is marked)
C15_Witness ==
    /\ file = Bytes(RomKeys)
    /\ keys[9]
    /\ keys[2]
    /\ pc = \h20A
    /\ registers[3] = 9
    /\ registers[8] = 0
    /\ registers[9] = 1

\* the operands of the fetched instruction
Vx == registers[Fetched.x]
Vy == registers[Fetched.y]
Is8xy(n) == Fetched.code = \h8000 /\ Fetched.n = n

\* 7xkk stores (Vx + kk) mod 256 in Vx and changes no other register
AddByte ==
    (TickDone /\ Fetched.code = \h7000) =>
        registers' = [registers EXCEPT ![Fetched.x] = (Vx + Fetched.kk) % U8]

\* C16 as it stands: for every x and y, 8xy4 leaves the sum modulo 256 in
\* Vx and the carry, 1 when Vx + Vy > 255 and 0 otherwise, in VF; 7xkk
\* leaves the sum modulo 256 in Vx and every other register as it was.
C16_Addition ==
    [][ /\ (TickDone /\ Is8xy(4)) =>
              /\ registers'[Fetched.x] = (Vx + Vy) % U8
              /\ registers'[15] = IF Vx + Vy > 255 THEN 1 ELSE 0
        /\ AddByte
      ]_vars

\* C16, amended: 8xy4 leaves the carry in VF for every x and y, and the
\* sum modulo 256 in Vx when x is not 0xF (with x = 0xF the carry is what
\* VF holds); 7xkk leaves the sum modulo 256 in Vx and every other register
\* as it was.
C16_AdditionFlagLast ==
    [][ /\ (TickDone /\ Is8xy(4)) =>
              /\ Fetched.x # 15 => registers'[Fetched.x] = (Vx + Vy) % U8
              /\ registers'[15] = IF Vx + Vy > 255 THEN 1 ELSE 0
        /\ AddByte
      ]_vars

\* the files of the arithmetic ROMs
AluFiles == {Bytes(words) : words \in AluRoms}

\* C16: 8F14 has added VF = 255 and V1 = 1: the sum 256 is lost, VF holds
\* the carry 1
C16_Witness ==
    /\ file \in AluFiles
    /\ file[1] = \h6F /\ file[2] = 255
    /\ file[3] = \h61 /\ file[4] = 1
    /\ pc = PROGRAM_START + 6
    /\ registers[15] = 1
    /\ registers[1] = 1

\* C17 as it stands: for every x and y, 8xy5 leaves (Vx - Vy) mod 256 in
\* Vx and VF = 1 exactly when Vx >= Vy, and 8xy7 leaves (Vy - Vx) mod 256 in
\* Vx and VF = 1 exactly when Vy >= Vx, the operands taken before the
\* instruction; VF is 0 otherwise.
C17_Subtraction ==
    [][ /\ (TickDone /\ Is8xy(5)) =>
              /\ registers'[Fetched.x] = (Vx - Vy) % U8
              /\ registers'[15] = IF Vx >= Vy THEN 1 ELSE 0
        /\ (TickDone /\ Is8xy(7)) =>
              /\ registers'[Fetched.x] = (Vy - Vx) % U8
              /\ registers'[15] = IF Vy >= Vx THEN 1 ELSE 0
      ]_vars

\* C17, amended: the flag is as the claim says for every x and y, and the
\* difference modulo 256 is in Vx when x is not 0xF (with x = 0xF the flag
\* is what VF holds).
C17_SubtractionFlagLast ==
    [][ /\ (TickDone /\ Is8xy(5)) =>
              /\ Fetched.x # 15 => registers'[Fetched.x] = (Vx - Vy) % U8
              /\ registers'[15] = IF Vx >= Vy THEN 1 ELSE 0
        /\ (TickDone /\ Is8xy(7)) =>
              /\ Fetched.x # 15 => registers'[Fetched.x] = (Vy - Vx) % U8
              /\ registers'[15] = IF Vy >= Vx THEN 1 ELSE 0
      ]_vars

\* C17: 8FF5 has subtracted VF = 128 from itself: the difference 0 is
\* lost, VF holds the flag 1 of no borrow
C17_Witness ==
    /\ file \in AluFiles
    /\ file[1] = \h6F /\ file[3] = \h6F /\ file[4] = 128
    /\ pc = PROGRAM_START + 12
    /\ registers[15] = 1

\* the files of the block-transfer ROMs, the x of the loaded one and the
\* address of its spin, behind Fx65
BlockFiles == {Bytes(words) : words \in BlockRoms}
BlockX == file[35] % 16
BlockDone == file \in BlockFiles /\ pc = PROGRAM_START + 72

\* C18: Fx55 changes no register and Fx65 none above Vx, each leaves I
\* raised by x + 1, and after Fx55, new values in every register, I set
\* back and Fx65, the registers V0..Vx hold what they held before Fx55 and
\* those above Vx what they held before Fx65.
C18_BlockRoundTrip ==
    [][ /\ (TickDone /\ Fetched.code = \hF000 /\ Fetched.kk = \h55) =>
              /\ registers' = registers
              /\ i' = i + Fetched.x + 1
        /\ (TickDone /\ Fetched.code = \hF000 /\ Fetched.kk = \h65) =>
              /\ \A r \in 0..15 : r > Fetched.x => registers'[r] = registers[r]
              /\ i' = i + Fetched.x + 1
        /\ BlockDone' =>
              \A r \in 0..15 :
                  registers'[r] = IF r <= BlockX THEN \h10 + r ELSE \hC0 + r
      ]_vars

\* C18: all sixteen registers were stored at 0xFF0..0xFFF and are back
\* after the load; I has gone one beyond the memory
C18_Witness ==
    /\ BlockDone
    /\ BlockX = 15
    /\ i = MEMORY_SIZE
    /\ registers[0] = \h10
    /\ registers[15] = \h1F

\* the step is the load of the ROM file into a new Device
Loaded == at = "boot" /\ at' = "loop"

\* the bytes of the file that fit into 0x200..0xFFF
Fitting == IF Len(file) < MEMORY_SIZE - PROGRAM_START
           THEN Len(file) ELSE MEMORY_SIZE - PROGRAM_START

\* C19: the first On, once the Device is made, is followed by the load of
\* the file that the path names, whatever the size of the file; after it
\* the cells from 0x200 on hold the bytes of the file, up to the 0xE00 that
\* fit into 0x200..0xFFF, the cells 0..79 hold the font and the other
\* cells below 0x200 hold 0.
C19_Load ==
    [][ /\ (at = "boot" /\ Received /\ sent[recv_count + 1].type = "On"
              /\ file' # Unread /\ ~load_panics(file')) => Loaded
        /\ Loaded =>
              /\ \A k \in 0..(Fitting' - 1) : memory'[PROGRAM_START + k] = file'[k + 1]
              /\ \A a \in 0..(Len(FONT) - 1) : memory'[a] = FONT[a + 1]
              /\ \A a \in Len(FONT)..(PROGRAM_START - 1) : memory'[a] = 0
      ]_vars

\* C20: Fx29 with a digit d in Vx leaves I = 5 * d and changes nothing
\* else of the device; the five cells from I on hold the glyph of d as the
\* font table gives it, each row in the high nibble with a low nibble of 0;
\* for d = 7 the rows are F0 10 20 40 40 at I = 35.  (No program of the
\* model stores below 0x50.)
C20_FontLookup ==
    [][(TickDone /\ Fetched.code = \hF000 /\ Fetched.kk = \h29 /\ Vx <= 15) =>
          /\ i' = 5 * Vx
          /\ \A k \in 0..4 :
                /\ memory'[i' + k] = FONT[5 * Vx + k + 1]
                /\ memory'[i' + k] % 16 = 0
          /\ Vx = 7 =>
                /\ i' = 35
                /\ [k \in 1..5 |-> memory'[i' + k - 1]]
                      = <<\hF0, \h10, \h20, \h40, \h40>>
          /\ UNCHANGED <<memory, registers, stack, keys, sp, dt, st, wait_key, buffer>>
      ]_vars

\* C20: FE29 has looked up the digit 7 held in VE
C20_Witness ==
    /\ file = Bytes(FontRom(14, 7))
    /\ pc = PROGRAM_START + 4
    /\ registers[14] = 7
    /\ i = 35
    /\ memory[35] = \hF0 /\ memory[39] = \h40

\* C21: for every x and y, 8xy6 leaves the lowest bit of the old Vx in VF
\* and the old Vx shifted right by one in Vx, and 8xyE the highest bit of
\* the old Vx in VF and the old Vx shifted left by one, modulo 256, in Vx:
\* the value of Vy has no part in the result.
C21_Shifts ==
    [][ /\ (TickDone /\ Is8xy(6)) =>
              /\ registers'[15] = Vx % 2
              /\ registers'[Fetched.x] = Vx \div 2
        /\ (TickDone /\ Is8xy(14)) =>
              /\ registers'[15] = Vx \div 128
              /\ registers'[Fetched.x] = (Vx * 2) % U8
      ]_vars

\* C22: a tick that fetches Dxyn with I + n <= 4096 returns, whatever Vx
\* and Vy are: no cell outside the 2048 of the buffer is read or written,
\* every lit cell is one of them, and VF ends as 0 or 1.
C22_DrawNeverFails ==
    [][(TickStep /\ ~fetch_panics(Dev) /\ Fetched.code = \hD000
          /\ i + Fetched.n <= MEMORY_SIZE) =>
          /\ at' # "panicked"
          /\ registers'[15] \in {0, 1}
          /\ buffer' \subseteq 0..(BUFFER_SIZE - 1)
      ]_vars

====
